---- MODULE Spec2Model ----
(***************************************************************************)
(* TelnetStream of src/src/telnet.js: the negotiation-swallowing parser    *)
(* (input), the IAC escaping on output (write) and the line-buffering      *)
(* data handler installed by attach.                                       *)
(*                                                                         *)
(* Buffers are sequences of bytes; the JavaScript index k of a buffer is   *)
(* element k + 1 of the sequence.  Cursors (i, cleanlen, inputlen) keep    *)
(* their 0-based JavaScript values.                                        *)
(***************************************************************************)
EXTENDS Integers, Sequences, FiniteSets, TLC

\* see: arpa/telnet.h
IAC == 255
DONT == 254
DO == 253
WONT == 252
WILL == 251
SB == 250
SE == 240

OPT_ECHO == 1

CR == 13
LF == 10

\* ------------------------------------------------------------------------
\* Bounds of the model
\* ------------------------------------------------------------------------
\* longest argument of a direct call of input, over the full alphabet
MaxLen == 4
\* longest argument of a direct call of input, over the core alphabet
MaxCoreLen == 6
\* number of bytes a session receives, in chunks of any length
MaxReceived == 4
\* largest configured maxInputLength of a session
MaxCapacity == 3
\* longest plain prefix of a chunk data ++ IAC DO ECHO ++ CR LF
MaxScenarioData == 1
\* number of such chunks a session receives
MaxScenarioChunks == 2
\* a configured maxInputLength that holds the longest such chunk
ScenarioCapacity == 6
\* longest payload given to write
MaxPayloadLen == 6
\* number of bytes a session receives while its other operations are followed
MaxLifecycleReceived == 1
\* number of toggleEcho calls of a session
MaxToggles == 3
\* longest payload of a write of such a session
MaxLifecyclePayloadLen == 1
\* maxInputLength of such a session
LifecycleCapacity == 1
\* number of 'close' notifications the connection of such a session delivers
MaxCloses == 2
\* maxInputLength of the session on which write is called once
WriteCapacity == 1

\* ------------------------------------------------------------------------
\* Values
\* ------------------------------------------------------------------------
\* the bytes a cell of a buffer allocated with new Buffer(n) may hold before
\* it is written: zero where the runtime fills the allocation, any byte of
\* the heap where it does not
HeapBytes == {0, IAC}
\* the cursor value standing for a loop that never exits
Diverges == -2

\* the sequences over S of length at most n
SeqsUpTo(S, n) == UNION {[1..m -> S] : m \in 0..n}

Min(a, b) == IF a < b THEN a ELSE b
Max(a, b) == IF a > b THEN a ELSE b

\* bytes of the arguments of direct calls of input
InputBytes == {0, LF, 104, SE, SB, WILL, WONT, DO, DONT, IAC}
CoreBytes == {LF, 104, SE, SB, DO, IAC}
Inputs == SeqsUpTo(InputBytes, MaxLen) \cup SeqsUpTo(CoreBytes, MaxCoreLen)

\* bytes of the inbound chunks of a session
SessionBytes == {CR, LF, 104, SB, IAC}
\* the chunks of n bytes
Chunks(n) == [1..n -> SessionBytes]

\* chunks "hi" IAC DO ECHO CR LF, for "hi" any short text
ScenarioData == SeqsUpTo({104, 105}, MaxScenarioData)
ScenarioChunks == {d \o <<IAC, DO, OPT_ECHO>> \o <<CR, LF>> : d \in ScenarioData}

\* bytes of the payloads of write
PayloadBytes == {1, 2, 3, IAC}
Payloads == SeqsUpTo(PayloadBytes, MaxPayloadLen)

\* ------------------------------------------------------------------------
\* Buffer primitives used by the code
\* ------------------------------------------------------------------------
\* buf[k] for a 0-based index k; reading outside the buffer gives undefined
Undefined == -3
At(buf, k) == IF k >= 0 /\ k < Len(buf) THEN buf[k + 1] ELSE Undefined

\* Buffer.alloc(n): n zero bytes
alloc(n) == [k \in 1..n |-> 0]

\* new Buffer(n): the buffers of n cells, none written yet, that the
\* allocation may return
newBuffer(n) == [1..n -> HeapBytes]

\* buf.slice(start, end): a negative index counts from the end of the
\* buffer, and both indices are clamped to 0..buf.length
sliceIndex(buf, k) == IF k < 0 THEN Max(Len(buf) + k, 0) ELSE Min(k, Len(buf))
slice(buf, start, end) ==
  LET s == sliceIndex(buf, start)
      e == sliceIndex(buf, end)
  IN  IF e > s THEN SubSeq(buf, s + 1, e) ELSE <<>>

\* the chunk is written at the start of target, whatever targetStart is
copy_AtStart(databuf, target, targetStart) ==
  [k \in 1..Len(target) |-> IF k <= Len(databuf) THEN databuf[k] ELSE target[k]]

\* databuf.copy(target, targetStart): writes the bytes of databuf that fit
\* into target from targetStart on and drops the rest
copy(databuf, target, targetStart) ==
  [k \in 1..Len(target) |->
     IF k > targetStart /\ k - targetStart <= Len(databuf)
     THEN databuf[k - targetStart]
     ELSE target[k]]

\* databuf.toString().match(/[\r\n]/): CR and LF are single-byte code
\* points in UTF-8 and survive the decoding of any byte sequence
matchesTerminator(databuf) == \E k \in 1..Len(databuf) : databuf[k] \in {CR, LF}

\* ------------------------------------------------------------------------
\* input: strip the negotiations of inputbuf
\* ------------------------------------------------------------------------
\* every byte from SE up is taken for a command byte
isPlain_BelowSE(byte, inSB) == byte < SE /\ ~inSB

\* line 154: the byte is copied to cleanbuf
isPlain(byte, inSB) == byte # IAC /\ ~inSB

\* case WONT is missing
sequenceLength_NoWONT(cmd) == IF cmd \in {WILL, DO, DONT} THEN 3 ELSE 2

\* the default case advances by one byte only
sequenceLength_DefaultOne(cmd) == IF cmd \in {WILL, WONT, DO, DONT} THEN 3 ELSE 1

\* lines 164-169 and 177-179: the length of the sequence IAC cmd ...
sequenceLength(cmd) == IF cmd \in {WILL, WONT, DO, DONT} THEN 3 ELSE 2

\* line 175: while (inputbuf[i++] !== SE) {sublen++;}  The cursor after
\* the loop.  A read past the end gives undefined, which is not SE, so
\* the loop never exits once the cursor has left the buffer.
RECURSIVE skipToSE(_, _)
skipToSE(inputbuf, i) ==
  IF i >= Len(inputbuf) THEN Diverges
  ELSE IF At(inputbuf, i) = SE THEN i + 1
  ELSE skipToSE(inputbuf, i + 1)

\* two bytes are cut, for CR LF
cleanEnd_TwoBytes(cleanlen) == cleanlen - 2

\* line 183: the end index of the slice of cleanbuf that is emitted
cleanEnd(cleanlen) == cleanlen - 1

\* lines 153-181: the while loop, from cursor i on
RECURSIVE scan(_, _, _, _, _)
scan(inputbuf, i, cleanbuf, cleanlen, inSB) ==
  IF ~(i < Len(inputbuf))
  THEN [returns |-> TRUE, cleanbuf |-> cleanbuf, cleanlen |-> cleanlen, inSB |-> inSB]
  ELSE IF isPlain(At(inputbuf, i), inSB)
  THEN scan(inputbuf, i + 1, [cleanbuf EXCEPT ![cleanlen + 1] = At(inputbuf, i)],
            cleanlen + 1, inSB)
  ELSE LET cmd == At(inputbuf, i + 1)
       IN  IF cmd = SB
           THEN LET j == skipToSE(inputbuf, i + 2)
                IN  IF j = Diverges
                    THEN [returns |-> FALSE, cleanbuf |-> cleanbuf,
                          cleanlen |-> cleanlen, inSB |-> TRUE]
                    ELSE scan(inputbuf, j, cleanbuf, cleanlen, TRUE)
           ELSE scan(inputbuf, i + sequenceLength(cmd), cleanbuf, cleanlen, inSB)

\* lines 147-184: the result of input(inputbuf): whether the call returns,
\* and the payload of the data event it emits when it does
input(inputbuf) ==
  LET r == scan(inputbuf, 0, alloc(Len(inputbuf)), 0, FALSE)
  IN  [returns |-> r.returns,
       copied  |-> SubSeq(r.cleanbuf, 1, r.cleanlen),
       data    |-> IF r.returns THEN slice(r.cleanbuf, 0, cleanEnd(r.cleanlen)) ELSE <<>>]

\* ------------------------------------------------------------------------
\* write: escape IACs by duplicating
\* ------------------------------------------------------------------------
\* lines 52-57
countIACs(data) == Cardinality({k \in 1..Len(data) : data[k] = IAC})

\* lines 60-66: the buffer b
RECURSIVE escaped(_)
escaped(data) ==
  IF data = <<>> THEN <<>>
  ELSE (IF Head(data) = IAC THEN <<IAC, IAC>> ELSE <<Head(data)>>) \o escaped(Tail(data))

\* line 71: the buffer handed to this.stream.write, given data and the
\* buffer b of line 60 (None when there is no IAC): b is local to the
\* block of line 59 and is not used after it
None == <<-4>>
forwarded(data, b) == data

\* the finished flag is not tested
isOpen_EndedOnly(ended, finished) == ~ended

\* line 70: !this.stream.ended && !this.stream.finished
isOpen(ended, finished) == ~ended /\ ~finished

\* ------------------------------------------------------------------------
\* telnetCommand, toggleEcho and the close and error handlers
\* ------------------------------------------------------------------------
\* lines 100-105: seq, for a command that is an array of bytes or one byte
commandSeq(willingness, command, isArray) ==
  <<IAC, willingness>> \o (IF isArray THEN command ELSE <<command>>)

\* echo is switched off, never on again
toggled_Off(echo) == FALSE

\* line 111: !this.echoing
toggled(echo) == ~echo

\* WILL and WONT are swapped
echoWillingness_Swapped(echo) == IF echo THEN WILL ELSE WONT

\* line 112: this.echoing ? WONT : WILL
echoWillingness(echo) == IF echo THEN WONT ELSE WILL

\* line 137: the events the close handler emits
closeEvents == <<[type |-> "close"]>>

\* the error closes the session
errorEvents_Close == <<[type |-> "close"]>>

\* line 121: the events the error handler emits (it logs to console.error)
errorEvents == <<>>

\* the types of a sequence of events
types(events) == [k \in 1..Len(events) |-> events[k].type]

\* the number of events of one type among those emitted upward
Count(seq, x) == Cardinality({k \in 1..Len(seq) : seq[k] = x})

\* ------------------------------------------------------------------------
\* State
\* ------------------------------------------------------------------------
VARIABLES
  maxInputLength,  \* this.maxInputLength
  echoing,         \* this.echoing
  inputbuf,        \* attach: let inputbuf
  inputlen,        \* attach: let inputlen
  streamEnded,     \* this.stream.ended
  streamFinished,  \* this.stream.finished
  running,         \* FALSE once a handler spins forever in line 175
  argument,        \* the argument of the direct call of input or write to come
  call,            \* the operation that ran last, its argument and the
                   \* value of inputlen it started from
  emitted,         \* the events the last operation emitted upward
  streamWrites,    \* the buffers the last operation gave to this.stream.write
  line,            \* the bytes received since inputbuf was last allocated
  delivered,       \* the payloads of all data events so far, concatenated
  received,        \* all bytes received so far
  overflowed,      \* TRUE once more bytes were accumulated than inputbuf holds
  chunks,          \* the number of chunks received so far
  upward,          \* the types of all events emitted upward so far
  toggles          \* the toggleEcho calls so far: echoing before and after,
                   \* and the buffers given to this.stream.write

vars == <<maxInputLength, echoing, inputbuf, inputlen, streamEnded, streamFinished,
          running, argument, call, emitted, streamWrites, line, delivered,
          received, overflowed, chunks, upward, toggles>>

NoCall == [op |-> "none", arg |-> <<>>, at |-> 0]

Capacities == 1..MaxCapacity

\* the buffer of a stream that attach has not given one
NoBuffer == <<>>

\* lines 116-119: this.attach(connection) allocates the buffer
attach ==
  /\ inputbuf \in newBuffer(maxInputLength)
  /\ inputlen = 0

\* constructor (lines 25-32)
Construct(capacity) ==
  /\ maxInputLength = capacity
  /\ echoing = TRUE
  /\ running = TRUE
  /\ emitted = <<>>
  /\ streamWrites = <<>>
  /\ line = <<>>
  /\ delivered = <<>>
  /\ received = <<>>
  /\ overflowed = FALSE
  /\ chunks = 0
  /\ upward = <<>>
  /\ toggles = <<>>

\* ------------------------------------------------------------------------
\* The session: chunks arriving on an attached connection
\* ------------------------------------------------------------------------
Init ==
  /\ \E capacity \in Capacities : Construct(capacity)
  /\ attach
  /\ streamEnded = FALSE
  /\ streamFinished = FALSE
  /\ argument = <<>>
  /\ call = NoCall

\* lines 123-134: connection.on('data', ...)
OnData(databuf) ==
  /\ running
  /\ LET buf == copy(databuf, inputbuf, inputlen)
         len == inputlen + Len(databuf)
         r   == input(slice(buf, 0, len))
     IN  /\ call' = [op |-> "data", arg |-> databuf, at |-> inputlen]
         /\ received' = received \o databuf
         /\ overflowed' = (overflowed \/ len > maxInputLength)
         /\ chunks' = chunks + 1
         /\ streamWrites' = <<>>
         /\ IF ~matchesTerminator(databuf)
            THEN /\ inputbuf' = buf
                 /\ inputlen' = len
                 /\ emitted' = <<>>
                 /\ line' = line \o databuf
                 /\ UNCHANGED <<running, delivered, upward>>
            ELSE IF r.returns
            THEN /\ emitted' = <<[type |-> "data", data |-> r.data]>>
                 /\ delivered' = delivered \o r.data
                 /\ upward' = Append(upward, "data")
                 /\ inputbuf' \in newBuffer(maxInputLength)
                 /\ inputlen' = 0
                 /\ line' = <<>>
                 /\ UNCHANGED running
            ELSE /\ running' = FALSE
                 /\ inputbuf' = buf
                 /\ inputlen' = len
                 /\ emitted' = <<>>
                 /\ line' = line \o databuf
                 /\ UNCHANGED <<delivered, upward>>
  /\ UNCHANGED <<maxInputLength, echoing, streamEnded, streamFinished, argument,
                 toggles>>

Next ==
  \E n \in 1..(MaxReceived - Len(received)) :
    \E databuf \in Chunks(n) : OnData(databuf)

Spec == Init /\ [][Next]_vars

\* ------------------------------------------------------------------------
\* The session receiving lines with an embedded IAC DO ECHO
\* ------------------------------------------------------------------------
InitScenario ==
  /\ \E capacity \in Capacities \cup {ScenarioCapacity} : Construct(capacity)
  /\ attach
  /\ streamEnded = FALSE
  /\ streamFinished = FALSE
  /\ argument = <<>>
  /\ call = NoCall

NextScenario ==
  \E databuf \in ScenarioChunks :
    /\ chunks < MaxScenarioChunks
    /\ OnData(databuf)

SpecScenario == InitScenario /\ [][NextScenario]_vars

\* ------------------------------------------------------------------------
\* input called once on an arbitrary buffer
\* ------------------------------------------------------------------------
InitInput ==
  /\ Construct(MaxCapacity)
  /\ inputbuf = NoBuffer
  /\ inputlen = 0
  /\ streamEnded = FALSE
  /\ streamFinished = FALSE
  /\ argument \in Inputs
  /\ call = NoCall

\* lines 147-184: this.input(argument)
Input ==
  /\ running
  /\ call.op = "none"
  /\ LET r == input(argument)
     IN  /\ call' = [op |-> "input", arg |-> argument, at |-> 0]
         /\ running' = r.returns
         /\ emitted' = IF r.returns THEN <<[type |-> "data", data |-> r.data]>> ELSE <<>>
         /\ delivered' = delivered \o r.data
         /\ upward' = IF r.returns THEN Append(upward, "data") ELSE upward
  /\ UNCHANGED <<maxInputLength, echoing, inputbuf, inputlen, streamEnded, streamFinished,
                 argument, streamWrites, line, received, overflowed, chunks,
                 toggles>>

NextInput == Input

SpecInput == InitInput /\ [][NextInput]_vars

\* ------------------------------------------------------------------------
\* write called once on an arbitrary payload
\* ------------------------------------------------------------------------
InitWrite ==
  /\ Construct(WriteCapacity)
  /\ attach
  /\ streamEnded \in BOOLEAN
  /\ streamFinished \in BOOLEAN
  /\ argument \in Payloads
  /\ call = NoCall

\* lines 46-76: this.write(data); an exception of this.stream.write is
\* caught and logged
write(data) ==
  /\ running
  /\ call' = [op |-> "write", arg |-> data, at |-> inputlen]
  /\ LET iacs == countIACs(data)
         b    == IF iacs > 0 THEN escaped(data) ELSE None
     IN  streamWrites' = IF isOpen(streamEnded, streamFinished)
                         THEN <<forwarded(data, b)>>
                         ELSE <<>>
  /\ emitted' = <<>>
  /\ UNCHANGED <<maxInputLength, echoing, inputbuf, inputlen, streamEnded, streamFinished,
                 running, argument, line, delivered, received, overflowed, chunks,
                 upward, toggles>>

Write ==
  /\ call.op = "none"
  /\ write(argument)

NextWrite == Write

SpecWrite == InitWrite /\ [][NextWrite]_vars

\* ------------------------------------------------------------------------
\* The session with all its operations: the connection delivers chunks,
\* errors and 'close' notifications in any order; the application may write, send a
\* telnet command, toggle the echo and end the connection at any time
\* ------------------------------------------------------------------------
LifecyclePayloads == SeqsUpTo({1, IAC}, MaxLifecyclePayloadLen)

InitLifecycle ==
  /\ Construct(LifecycleCapacity)
  /\ attach
  /\ streamEnded = FALSE
  /\ streamFinished = FALSE
  /\ argument = <<>>
  /\ call = NoCall

\* the arguments of the application's calls of telnetCommand
Willingness == {WILL, DO, SB}
Options == {OPT_ECHO}
Subsequences == {<<24, 1, IAC, SE>>}

\* lines 99-108: this.telnetCommand(willingness, command); seq is given to
\* this.stream.write whatever the connection's flags (line 107)
telnetCommand(willingness, command, isArray) ==
  /\ running
  /\ call' = [op |-> "telnetCommand",
              arg |-> <<willingness>> \o (IF isArray THEN command ELSE <<command>>),
              at |-> inputlen]
  /\ streamWrites' = <<commandSeq(willingness, command, isArray)>>
  /\ emitted' = <<>>
  /\ UNCHANGED <<maxInputLength, echoing, inputbuf, inputlen, streamEnded, streamFinished,
                 running, argument, line, delivered, received, overflowed, chunks,
                 upward, toggles>>

\* lines 110-114: this.toggleEcho(); each telnetCommand gives its buffer to
\* this.stream.write (line 107)
toggleEcho ==
  /\ running
  /\ LET now    == toggled(echoing)
         writes == <<commandSeq(echoWillingness(now), OPT_ECHO, FALSE),
                     commandSeq(DONT, OPT_ECHO, FALSE)>>
     IN  /\ echoing' = now
         /\ streamWrites' = writes
         /\ toggles' = Append(toggles, [was |-> echoing, now |-> now, writes |-> writes])
  /\ call' = [op |-> "toggleEcho", arg |-> <<>>, at |-> inputlen]
  /\ emitted' = <<>>
  /\ UNCHANGED <<maxInputLength, inputbuf, inputlen, streamEnded, streamFinished, running,
                 argument, line, delivered, received, overflowed, chunks, upward>>

\* lines 42-44: this.end(); the connection sets its ended and finished
\* flags as it sees fit
end ==
  /\ running
  /\ \E e, f \in BOOLEAN :
       /\ streamEnded' = (streamEnded \/ e)
       /\ streamFinished' = (streamFinished \/ f)
  /\ call' = [op |-> "end", arg |-> <<>>, at |-> inputlen]
  /\ emitted' = <<>>
  /\ streamWrites' = <<>>
  /\ UNCHANGED <<maxInputLength, echoing, inputbuf, inputlen, running, argument, line,
                 delivered, received, overflowed, chunks, upward, toggles>>

\* line 121: connection.on('error', ...)
OnError ==
  /\ running
  /\ call' = [op |-> "error", arg |-> <<>>, at |-> inputlen]
  /\ emitted' = errorEvents
  /\ upward' = upward \o types(errorEvents)
  /\ streamWrites' = <<>>
  /\ UNCHANGED <<maxInputLength, echoing, inputbuf, inputlen, streamEnded, streamFinished,
                 running, argument, line, delivered, received, overflowed, chunks,
                 toggles>>

\* lines 136-138: connection.on('close', ...)
OnClose ==
  /\ running
  /\ call' = [op |-> "close", arg |-> <<>>, at |-> inputlen]
  /\ emitted' = closeEvents
  /\ upward' = upward \o types(closeEvents)
  /\ streamWrites' = <<>>
  /\ UNCHANGED <<maxInputLength, echoing, inputbuf, inputlen, streamEnded, streamFinished,
                 running, argument, line, delivered, received, overflowed, chunks,
                 toggles>>

NextLifecycle ==
  \/ \E n \in 1..(MaxLifecycleReceived - Len(received)) :
       \E databuf \in Chunks(n) : OnData(databuf)
  \/ OnError
  \/ /\ Count(upward, "close") < MaxCloses
     /\ OnClose
  \/ /\ Len(toggles) < MaxToggles
     /\ toggleEcho
  \/ \E data \in LifecyclePayloads : write(data)
  \/ \E willingness \in Willingness :
       \/ \E command \in Options : telnetCommand(willingness, command, FALSE)
       \/ \E command \in Subsequences : telnetCommand(willingness, command, TRUE)
  \/ end

SpecLifecycle == InitLifecycle /\ [][NextLifecycle]_vars

\* ------------------------------------------------------------------------
\* Vocabulary of the properties
\* ------------------------------------------------------------------------
NoIAC(s) == \A k \in 1..Len(s) : s[k] # IAC
IsTerminator(b) == b \in {CR, LF}
NoTerminator(s) == \A k \in 1..Len(s) : ~IsTerminator(s[k])
Front(s) == SubSeq(s, 1, Len(s) - 1)
DataEvent(d) == [type |-> "data", data |-> d]
NegotiationCommands == {WILL, WONT, DO, DONT}

\* the bytes of s that are not line terminators, in order
RECURSIVE NonTerminators(_)
NonTerminators(s) ==
  IF s = <<>> THEN <<>>
  ELSE (IF IsTerminator(Head(s)) THEN <<>> ELSE <<Head(s)>>) \o NonTerminators(Tail(s))

\* s with every IAC byte doubled
RECURSIVE EveryIACDoubled(_)
EveryIACDoubled(s) ==
  IF s = <<>> THEN <<>>
  ELSE (IF Head(s) = IAC THEN <<IAC, IAC>> ELSE <<Head(s)>>) \o EveryIACDoubled(Tail(s))

\* a = data ++ [IAC, SB] ++ payload ++ [SE] ++ data2 ++ [terminator] with
\* IAC at position p and SE at position q
IsSubnegotiationForm(a, p, q) ==
  /\ p >= 1 /\ p + 2 <= q /\ q < Len(a)
  /\ a[p] = IAC /\ a[p + 1] = SB /\ a[q] = SE
  /\ \A k \in (p + 2)..(q - 1) : a[k] # SE
  /\ NoIAC(SubSeq(a, 1, p - 1))
  /\ NoIAC(SubSeq(a, q + 1, Len(a) - 1))
  /\ IsTerminator(a[Len(a)])

\* a = data ++ [IAC, cmd, opt] ++ data2 ++ [terminator] with IAC at position p
IsNegotiationForm(a, p) ==
  /\ p >= 1 /\ p + 3 <= Len(a)
  /\ a[p] = IAC /\ a[p + 1] \in NegotiationCommands
  /\ NoIAC(SubSeq(a, 1, p - 1))
  /\ NoIAC(SubSeq(a, p + 3, Len(a) - 1))
  /\ IsTerminator(a[Len(a)])

\* the last operation was the data handler, given a chunk
\* data ++ [IAC, DO, ECHO] ++ [CR, LF] that fits the empty buffer
ScenarioArrived ==
  /\ call.op = "data"
  /\ call.at = 0
  /\ call.arg \in ScenarioChunks
  /\ Len(call.arg) <= maxInputLength

ScenarioDataOf(chunk) == SubSeq(chunk, 1, Len(chunk) - 5)

\* ------------------------------------------------------------------------
\* Properties
\* ------------------------------------------------------------------------

\* C1: for data ++ [IAC, SB] ++ payload ++ [SE] ++ data2 ++ [terminator],
\* payload without SE, data and data2 without IAC, input returns and emits
\* exactly data ++ data2.
C1_SubnegotiationRemoved ==
  call.op = "input" =>
    \A p \in 1..Len(call.arg), q \in 1..Len(call.arg) :
      IsSubnegotiationForm(call.arg, p, q) =>
        /\ running
        /\ emitted = <<DataEvent(SubSeq(call.arg, 1, p - 1)
                                 \o SubSeq(call.arg, q + 1, Len(call.arg) - 1))>>

\* C2: a chunk data ++ [IAC, DO, ECHO] ++ [CR, LF] arriving on the empty
\* buffer yields one data event whose payload is exactly data.
C2_ScenarioYieldsData ==
  ScenarioArrived => emitted = <<DataEvent(ScenarioDataOf(call.arg))>>

\* C2 (amended): a chunk data ++ [IAC, DO, ECHO] ++ [CR, LF] arriving on the
\* empty buffer yields one data event whose payload is data ++ [CR]: only
\* the final byte of the line is removed.
C2_ScenarioYieldsDataCR ==
  ScenarioArrived => emitted = <<DataEvent(ScenarioDataOf(call.arg) \o <<CR>>)>>

C2_Witness ==
  /\ ScenarioArrived
  /\ call.arg = <<105, IAC, DO, OPT_ECHO, CR, LF>>
  /\ chunks = 2
  /\ emitted = <<DataEvent(<<105, CR>>)>>

\* C3: while the transport is neither ended nor finished, write forwards
\* the payload with every IAC byte doubled.
C3_WriteDoublesIAC ==
  (call.op = "write" /\ ~streamEnded /\ ~streamFinished) =>
    streamWrites = <<EveryIACDoubled(call.arg)>>

\* C4: for an input without IAC, input emits the input without its final
\* byte; for the empty input it emits the empty sequence.
C4_PlainInputKept ==
  (call.op = "input" /\ NoIAC(call.arg)) =>
    /\ running
    /\ emitted = <<DataEvent(IF call.arg = <<>> THEN <<>> ELSE Front(call.arg))>>

C4_Witness ==
  /\ call.op = "input"
  /\ NoIAC(call.arg)
  /\ Len(call.arg) >= 3
  /\ IsTerminator(call.arg[Len(call.arg)])
  /\ emitted = <<DataEvent(Front(call.arg))>>

\* C5: for data ++ [IAC, cmd, opt] ++ data2 ++ [terminator] with cmd one of
\* WILL, WONT, DO, DONT, data and data2 without IAC, input emits
\* data ++ data2.
C5_NegotiationRemoved ==
  call.op = "input" =>
    \A p \in 1..Len(call.arg) :
      IsNegotiationForm(call.arg, p) =>
        /\ running
        /\ emitted = <<DataEvent(SubSeq(call.arg, 1, p - 1)
                                 \o SubSeq(call.arg, p + 3, Len(call.arg) - 1))>>

C5_Witness ==
  /\ call.op = "input"
  /\ IsNegotiationForm(call.arg, 2)
  /\ Len(call.arg) = 6
  /\ emitted = <<DataEvent(<<call.arg[1], call.arg[5]>>)>>

\* C6: input returns on every finite input and emits a data event.
C6_InputReturns ==
  call.op = "input" => (running /\ Len(emitted) = 1)

\* C7: the recorded length of the accumulation buffer never exceeds
\* maxInputLength.
C7_LengthWithinCapacity == inputlen <= maxInputLength

\* C8: a chunk without terminator that takes the accumulated bytes past
\* maxInputLength empties the buffer and emits nothing, and no data event
\* is made from a partial line that had outgrown the buffer.
C8_OverflowDiscards ==
  call.op = "data" =>
    /\ (NoTerminator(call.arg) /\ call.at + Len(call.arg) > maxInputLength) =>
          (running /\ inputlen = 0 /\ emitted = <<>>)
    /\ call.at > maxInputLength => emitted = <<>>

\* C9: while only plain bytes arrived and the accumulated length stayed
\* within maxInputLength, the non-terminator bytes received are those
\* delivered in data events followed by those held in the buffer.
C9_NoByteLost ==
  (NoIAC(received) /\ ~overflowed) =>
    NonTerminators(received)
      = NonTerminators(delivered) \o NonTerminators(slice(inputbuf, 0, inputlen))

\* C10: when plain chunks arrive on an empty buffer and fit it, a chunk
\* without terminator emits nothing, and the first chunk with a terminator,
\* as its last byte only, emits one data event carrying all the bytes
\* accumulated but the final one.
C10_LineStep ==
  LET chunk == call'.arg
  IN  (/\ chunks' = chunks + 1
       /\ NoIAC(line \o chunk)
       /\ NoTerminator(line)
       /\ NoTerminator(Front(chunk))
       /\ Len(line) + Len(chunk) <= maxInputLength)
      => emitted' = IF IsTerminator(chunk[Len(chunk)])
                    THEN <<DataEvent(line \o Front(chunk))>>
                    ELSE <<>>

C10_LineAssembled == [][C10_LineStep]_vars

\* two chunks h, h LF gave one event
C10_Witness ==
  /\ call = [op |-> "data", arg |-> <<104, LF>>, at |-> 1]
  /\ chunks = 2
  /\ received = <<104, 104, LF>>
  /\ maxInputLength >= 3
  /\ emitted = <<DataEvent(<<104, 104>>)>>

\* ------------------------------------------------------------------------
\* Vocabulary of the properties of truncated and two-byte sequences
\* ------------------------------------------------------------------------
IsPrefix(s, t) == Len(s) <= Len(t) /\ s = SubSeq(t, 1, Len(s))
AllZero(s) == \A k \in 1..Len(s) : s[k] = 0
Least(S) == CHOOSE x \in S : \A y \in S : x <= y

\* The inbound grammar read from position k of a: plain bytes, IAC cmd,
\* IAC WILL/WONT/DO/DONT opt, IAC SB ... SE.  The position of the IAC of a
\* sequence that a ends in the middle of (a lone IAC, or IAC and one of
\* WILL/WONT/DO/DONT); 0 when a ends otherwise.
RECURSIVE TruncatedAt(_, _)
TruncatedAt(a, k) ==
  IF k > Len(a) THEN 0
  ELSE IF a[k] # IAC THEN TruncatedAt(a, k + 1)
  ELSE IF k = Len(a) THEN k
  ELSE IF a[k + 1] \in NegotiationCommands
       THEN IF k + 2 > Len(a) THEN k ELSE TruncatedAt(a, k + 3)
  ELSE IF a[k + 1] = SB
       THEN LET ends == {q \in (k + 2)..Len(a) : a[q] = SE}
            IN  IF ends = {} THEN 0 ELSE TruncatedAt(a, Least(ends) + 1)
  ELSE TruncatedAt(a, k + 2)

\* the plain bytes of a from position k on, by the same grammar
RECURSIVE PlainBytes(_, _)
PlainBytes(a, k) ==
  IF k > Len(a) THEN <<>>
  ELSE IF a[k] # IAC THEN <<a[k]>> \o PlainBytes(a, k + 1)
  ELSE IF k = Len(a) THEN <<>>
  ELSE IF a[k + 1] \in NegotiationCommands THEN PlainBytes(a, k + 3)
  ELSE IF a[k + 1] = SB
       THEN LET ends == {q \in (k + 2)..Len(a) : a[q] = SE}
            IN  IF ends = {} THEN <<>> ELSE PlainBytes(a, Least(ends) + 1)
  ELSE PlainBytes(a, k + 2)

\* a = data ++ [IAC, x] ++ data2 ++ [terminator] with IAC at position p and
\* x none of WILL, WONT, DO, DONT, SB
IsCommandForm(a, p) ==
  /\ p >= 1 /\ p + 2 <= Len(a)
  /\ a[p] = IAC /\ a[p + 1] \notin NegotiationCommands \cup {SB}
  /\ NoIAC(SubSeq(a, 1, p - 1))
  /\ NoIAC(SubSeq(a, p + 2, Len(a) - 1))
  /\ IsTerminator(a[Len(a)])

\* C11: on an input that ends in a truncated sequence (a lone IAC, or IAC
\* and WILL/WONT/DO/DONT without option byte) input returns and emits a
\* payload without any byte of that sequence: a prefix of the plain bytes
\* before it, or zero bytes that were not copied from the input.
C11_TruncatedSequenceSwallowed ==
  (call.op = "input" /\ TruncatedAt(call.arg, 1) > 0) =>
    /\ running
    /\ Len(emitted) = 1
    /\ \/ IsPrefix(emitted[1].data, PlainBytes(call.arg, 1))
       \/ AllZero(emitted[1].data)

\* C18: for data ++ [IAC, x] ++ data2 ++ [terminator], x none of WILL, WONT,
\* DO, DONT, SB (x may be IAC), data and data2 without IAC, input emits
\* data ++ data2.
C18_TwoByteCommandRemoved ==
  call.op = "input" =>
    \A p \in 1..Len(call.arg) :
      IsCommandForm(call.arg, p) =>
        /\ running
        /\ emitted = <<DataEvent(SubSeq(call.arg, 1, p - 1)
                                 \o SubSeq(call.arg, p + 2, Len(call.arg) - 1))>>

\* a doubled IAC between two data bytes
C18_Witness ==
  /\ call.op = "input"
  /\ call.arg = <<104, IAC, IAC, 104, LF>>
  /\ emitted = <<DataEvent(<<104, 104>>)>>

\* C19: the payload input emits is a prefix of the plain bytes it copied
\* during the scan; when nothing was copied the payload is empty.
C19_PayloadFromCopiedBytes ==
  (call.op = "input" /\ running) =>
    /\ Len(emitted) = 1
    /\ IsPrefix(emitted[1].data, input(call.arg).copied)

\* ------------------------------------------------------------------------
\* Vocabulary of the properties of the session's operations
\* ------------------------------------------------------------------------
CloseEvent == [type |-> "close"]
Announce(willingness) == <<IAC, willingness, OPT_ECHO>>
ForbidEcho == <<IAC, DONT, OPT_ECHO>>

\* C12: toggleEcho flips echoing and then gives exactly two buffers to the
\* transport: IAC WONT ECHO when echoing is now on, IAC WILL ECHO when it
\* is now off, and then IAC DONT ECHO.
C12_ToggleEchoWrites ==
  call.op = "toggleEcho" =>
    LET t == toggles[Len(toggles)]
    IN  /\ t.now = ~t.was
        /\ echoing = t.now
        /\ streamWrites = <<Announce(IF echoing THEN WONT ELSE WILL), ForbidEcho>>

\* echo was switched off after a chunk was buffered
C12_Witness ==
  /\ call.op = "toggleEcho"
  /\ Len(toggles) = 1
  /\ echoing = FALSE
  /\ inputlen > 0
  /\ streamWrites = <<Announce(WILL), ForbidEcho>>

\* C13: of two consecutive toggleEcho calls, whatever ran between them, the
\* second returns echoing to the value it had before the first, one
\* announces IAC WILL ECHO where the other announces IAC WONT ECHO, and
\* both send IAC DONT ECHO.
C13_ToggleTwiceRestores ==
  \A k \in 1..(Len(toggles) - 1) :
    LET first  == toggles[k]
        second == toggles[k + 1]
    IN  /\ second.now = first.was
        /\ Len(first.writes) = 2 /\ Len(second.writes) = 2
        /\ {first.writes[1], second.writes[1]} = {Announce(WILL), Announce(WONT)}
        /\ first.writes[2] = ForbidEcho
        /\ second.writes[2] = ForbidEcho

\* two toggles with a chunk received in between
C13_Witness ==
  /\ Len(toggles) = 2
  /\ call.op = "toggleEcho"
  /\ echoing = TRUE
  /\ chunks > 0
  /\ toggles[1].writes[1] = Announce(WILL)
  /\ toggles[2].writes[1] = Announce(WONT)

\* C14: write calls transport.write zero times and raises nothing when the
\* transport is ended or finished, and exactly once otherwise.
C14_WriteGuarded ==
  call.op = "write" =>
    /\ running
    /\ Len(streamWrites) = IF streamEnded \/ streamFinished THEN 0 ELSE 1

\* a non-empty payload dropped on a transport that is finished but not ended
C14_Witness ==
  /\ call.op = "write"
  /\ call.arg # <<>>
  /\ streamFinished /\ ~streamEnded
  /\ streamWrites = <<>>

\* C15: the close handler emits exactly one close event and the session
\* is closed from then on: over the whole session at most one close event
\* is emitted upward and no data event follows it.
C15_CloseOnce ==
  /\ call.op = "close" => emitted = <<CloseEvent>>
  /\ Count(upward, "close") <= 1
  /\ \A j, k \in 1..Len(upward) :
       (j < k /\ upward[j] = "close") => upward[k] # "data"

\* C16: the error handler emits nothing upward and leaves the buffer, its
\* length and echoing as they were; a close event is emitted by the close
\* handler only.
C16_ErrorStep ==
  /\ (call'.op = "error" /\ vars' # vars) =>
        /\ emitted' = <<>>
        /\ upward' = upward
        /\ running'
        /\ UNCHANGED <<inputbuf, inputlen, echoing>>
  /\ (\E k \in 1..Len(emitted') : emitted'[k] = CloseEvent) => call'.op = "close"

C16_ErrorKeepsSession == [][C16_ErrorStep]_vars

\* an error arrived on a session with buffered bytes and echo off
C16_Witness ==
  /\ call.op = "error"
  /\ inputlen > 0
  /\ echoing = FALSE
  /\ Count(upward, "close") = 0
  /\ emitted = <<>>

\* C17: a chunk yields exactly one data event when the bytes accumulated
\* with it contain a CR or LF, and none otherwise; after a data event the
\* buffer is empty.
C17_Step ==
  chunks' = chunks + 1 =>
    /\ Len(emitted') = IF NoTerminator(line \o call'.arg) THEN 0 ELSE 1
    /\ Len(emitted') = 1 => (emitted'[1].type = "data" /\ inputlen' = 0)

C17_OneEventPerLine == [][C17_Step]_vars

\* C20: toggleEcho and telnetCommand, like write, give nothing to the
\* transport when the transport is ended or finished.
C20_NoWriteAfterEnd ==
  (call.op \in {"write", "toggleEcho", "telnetCommand"}
     /\ (streamEnded \/ streamFinished)) =>
    streamWrites = <<>>

====
